---- MODULE Spec2Model ----
(***************************************************************************)
(* PyPolyGuitar: the ring buffer shared by the audio callback and the      *)
(* analysis loop (src/audio/ring_buffer.py), the MIDI note tracker         *)
(* (src/midi/interface.py), the peak picker and the transient flag         *)
(* (src/dsp/numba_math.py) and the driver (run.py).                        *)
(*                                                                         *)
(* Six specifications share the variables:                                 *)
(*   SpecRing    write and read_recent called one after the other          *)
(*   SpecConc    write on the audio-callback thread interleaved, statement *)
(*               by statement, with read_recent on the analysis thread     *)
(*   SpecMidi    update_notes ticks on an open port whose send succeeds    *)
(*   SpecPick    iterative_spectral_subtraction, round by round            *)
(*   SpecLevel   the RMS level and transient flag of the loop body         *)
(*   SpecDriver  main(): start the stream, loop, interrupt, finally block  *)
(* A variable a specification does not use keeps its initial value.        *)
(***************************************************************************)
EXTENDS Integers, Sequences, FiniteSets, TLC

VARIABLES
    \* RingBuffer fields
    buffer,         \* self.buffer: Capacity samples, buffer[i+1] is Python's buffer[i]
    write_index,    \* self.write_index
    is_full,        \* self.is_full
    \* history of the ring buffer's use
    stream,         \* every sample handed to write, in order
    snap,           \* the last array read_recent returned: [arr, n, at, lo, hi],
                    \* at the write_index the call started from, lo the number
                    \* of samples whose write had returned when the call began,
                    \* hi the number handed to write when it returned
    lastCall,       \* the last RingBuffer call that returned
    \* the writer thread (AudioStream.callback -> RingBuffer.write)
    wpc, wlocal,
    \* the reader thread (main loop -> RingBuffer.read_recent)
    rpc, rlocal,
    \* MidiInterface fields
    output_port,    \* "none" | "open" | "closed"
    active_notes,   \* keys of self.active_notes in insertion order
    \* history of the MIDI port
    sent,           \* the messages the last update_notes passed to
                    \* output_port.send, in order
    sounding,       \* the notes whose last message sent was a note_on, when
                    \* the last update_notes began
    wasActive,      \* the keys of active_notes when the last update_notes began
    nfreq,          \* how many of the frequencies the last update_notes was
                    \* given convert to a note in 0..127
    noutside,       \* how many of them convert to a note outside 0..127
    absentRun,      \* per note in 0..127: the consecutive most recent
                    \* update_notes calls that did not detect it
    send_failed,    \* <<msg>> when output_port.send(msg) raised in the last
                    \* update_notes, else <<>>
    last_detected,  \* {d}: the last update_notes was given the list d
    same_calls,     \* how many of the most recent update_notes calls were
                    \* given that same list, counted up to 2
    \* run.py main()
    pc,             \* position in main()
    audio,          \* the audio stream: "new" | "running" | "failed" | "stopped"
    previous_rms,   \* main()'s previous_rms, in units of 1/1000
    current_rms,    \* main()'s current_rms, in units of 1/1000
    is_transient,   \* main()'s is_transient
    iter,           \* the last loop iteration: [outcome, rms, detected]
    lpc,            \* position in lines 72-75 of the loop body
    \* iterative_spectral_subtraction, round by round
    working_spectrum,           \* magnitudes in units of 1/1000, bin i at i + 1
    detected_frequencies_out,   \* the output list, in units of 1/16 Hz
    max_notes,                  \* the max_notes argument
    spectrum_in,    \* the spectrum argument as it was when the call began
    list_on_entry,  \* the output list as it was when the call began
    picked,         \* per registered note: the bin and its magnitude when chosen
    ppc             \* "idle" | "entry" | "loop" | "done"

ringVars   == <<buffer, write_index, is_full>>
histVars   == <<stream, snap, lastCall>>
threadVars == <<wpc, wlocal, rpc, rlocal>>
midiVars   == <<output_port, active_notes, sent, sounding, wasActive, nfreq,
               noutside, absentRun, send_failed, last_detected, same_calls>>
mainVars   == <<pc, audio>>
loopVars   == <<previous_rms, current_rms, is_transient, iter, lpc>>
pickVars   == <<working_spectrum, detected_frequencies_out, max_notes,
               spectrum_in, list_on_entry, picked, ppc>>
vars == <<buffer, write_index, is_full, stream, snap, lastCall, wpc, wlocal,
          rpc, rlocal, output_port, active_notes, sent, sounding, wasActive,
          nfreq, noutside, absentRun, send_failed, last_detected, same_calls,
          pc, audio, previous_rms, current_rms, is_transient,
          iter, lpc, working_spectrum, detected_frequencies_out, max_notes,
          spectrum_in, list_on_entry, picked, ppc>>

----------------------------------------------------------------------------
(* Bounds of the model *)

\* RingBuffer(capacity)
Capacity == 3
\* total number of samples handed to write
MaxWritten == 6
\* total number of samples handed to write while a read_recent runs
\* concurrently (SpecConc)
MaxConcWritten == 4

\* chunks handed to write are as long as Capacity + 1 (longer than the buffer)
MaxChunk == Capacity + 1

\* the sample values written: write and read_recent copy samples and never
\* look at their value, so two values tell every position apart
Samples == {0, 1}

Chunks == UNION {[1..n -> Samples] : n \in 0..MaxChunk}

\* frequencies are integers in units of 1/16 Hz: 7040 is 440 Hz, and a bin of
\* the 2048-point FFT at 48000 Hz is 375
Hz(x) == 16 * x

----------------------------------------------------------------------------
(* Python / numpy slicing *)

Range(s) == {s[i] : i \in 1..Len(s)}

Min(a, b) == IF a < b THEN a ELSE b
Max(a, b) == IF a > b THEN a ELSE b

\* a slice bound i of a sequence of length n, as Python normalises it
PySliceIdx(i, n) ==
    IF i < 0 THEN Max(i + n, 0) ELSE Min(i, n)

\* s[a:b]
PySlice(s, a, b) ==
    SubSeq(s, PySliceIdx(a, Len(s)) + 1, PySliceIdx(b, Len(s)))

\* buf[a:a+len(data)] = data, for 0 <= a and a + len(data) <= len(buf)
StoreSlice(buf, a, data) ==
    [i \in 1..Len(buf) |->
        IF a < i /\ i <= a + Len(data) THEN data[i - a] ELSE buf[i]]

\* numpy array objects: a view shares the buffer's memory, a copy owns its data
NoArray == [kind |-> "none", data |-> <<>>, lo |-> 0, hi |-> 0]

\* self.buffer[a:b]
View(a, b) ==
    [kind |-> "view", data |-> <<>>,
     lo |-> PySliceIdx(a, Capacity), hi |-> PySliceIdx(b, Capacity)]

Owned(data) == [kind |-> "copy", data |-> data, lo |-> 0, hi |-> 0]

\* the samples an array object holds while the buffer's memory is buf
Contents(arr, buf) ==
    IF arr.kind = "view" THEN SubSeq(buf, arr.lo + 1, arr.hi) ELSE arr.data

\* arr.copy()
CopyOf(arr, buf) == Owned(Contents(arr, buf))

\* np.concatenate((a1, a2))
Concatenate(a1, a2, buf) == Owned(Contents(a1, buf) \o Contents(a2, buf))

----------------------------------------------------------------------------
(* RingBuffer *)

Zeros == [i \in 1..Capacity |-> 0]

\* write, lines 15-19: a chunk longer than the buffer keeps its last Capacity samples
ClipData(data) ==
    IF Len(data) > Capacity THEN PySlice(data, -Capacity, Len(data)) ELSE data

\* a write that leaves the index at the end of the buffer
WrapIndex_never(rb) == rb

\* write, lines 37-39
WrapIndex(rb) ==
    IF rb.write_index = Capacity
    THEN [rb EXCEPT !.write_index = 0, !.is_full = TRUE]
    ELSE rb

\* write(data) on the ring buffer rb = [buffer, write_index, is_full]
write(rb, chunk) ==
    LET data == ClipData(chunk)
        data_len == Len(data)
        end_index == rb.write_index + data_len
        first_part_len == Capacity - rb.write_index
        second_part_len == data_len - first_part_len
    IN  IF end_index <= Capacity
        THEN WrapIndex([rb EXCEPT
                 !.buffer = StoreSlice(rb.buffer, rb.write_index, data),
                 !.write_index = end_index])
        ELSE WrapIndex([rb EXCEPT
                 !.buffer = StoreSlice(
                                StoreSlice(rb.buffer, rb.write_index,
                                           PySlice(data, 0, first_part_len)),
                                0, PySlice(data, first_part_len, data_len)),
                 !.write_index = second_part_len,
                 !.is_full = TRUE])

\* a read_recent whose wrap-around branch puts the two parts in the wrong order
read_recent_parts_swapped(rb, n_samples) ==
    IF rb.write_index >= n_samples
    THEN CopyOf(View(rb.write_index - n_samples, rb.write_index), rb.buffer)
    ELSE LET part1_len == n_samples - rb.write_index
             part1 == View(-part1_len, Capacity)
             part2 == View(0, rb.write_index)
         IN  Concatenate(part2, part1, rb.buffer)

\* a read_recent whose contiguous branch forgets .copy()
read_recent_no_copy(rb, n_samples) ==
    IF rb.write_index >= n_samples
    THEN View(rb.write_index - n_samples, rb.write_index)
    ELSE LET part1_len == n_samples - rb.write_index
             part1 == View(-part1_len, Capacity)
             part2 == View(0, rb.write_index)
         IN  Concatenate(part1, part2, rb.buffer)

\* read_recent(n_samples), for n_samples <= capacity: the array it returns
read_recent(rb, n_samples) ==
    IF rb.write_index >= n_samples
    THEN CopyOf(View(rb.write_index - n_samples, rb.write_index), rb.buffer)
    ELSE LET part1_len == n_samples - rb.write_index
             part1 == View(-part1_len, Capacity)
             part2 == View(0, rb.write_index)
         IN  Concatenate(part1, part2, rb.buffer)

RB == [buffer |-> buffer, write_index |-> write_index, is_full |-> is_full]

NoCall == [op |-> "none", n |-> 0, raised |-> FALSE]

NoSnap == [arr |-> NoArray, n |-> 0, at |-> 0, lo |-> 0, hi |-> 0]

\* RingBuffer.__init__
RingInit ==
    /\ buffer = Zeros
    /\ write_index = 0
    /\ is_full = FALSE
    /\ stream = <<>>
    /\ snap = NoSnap
    /\ lastCall = NoCall

\* the locals of write and of read_recent while no call is running
NoWrite == [data |-> <<>>, data_len |-> 0, end_index |-> 0,
            first_part_len |-> 0, second_part_len |-> 0, chunk_len |-> 0]
NoRead == [n_samples |-> 0, start |-> 0, part1_len |-> 0,
           part1 |-> NoArray, part2 |-> NoArray, view |-> NoArray,
           at |-> 0, lo |-> 0]

ThreadsIdle ==
    /\ wpc = "idle" /\ wlocal = NoWrite
    /\ rpc = "idle" /\ rlocal = NoRead

MidiIdle ==
    /\ output_port = "none"
    /\ active_notes = <<>>
    /\ sent = <<>>
    /\ sounding = {}
    /\ wasActive = {}
    /\ nfreq = 0
    /\ noutside = 0
    /\ absentRun = <<>>
    /\ send_failed = <<>>
    /\ last_detected = {}
    /\ same_calls = 0

MainIdle ==
    /\ pc = "none"
    /\ audio = "new"

NoIter == [outcome |-> "none", rms |-> 0, detected |-> <<>>]

\* main(), line 51: previous_rms = 0.0
LoopIdle ==
    /\ previous_rms = 0
    /\ current_rms = 0
    /\ is_transient = FALSE
    /\ iter = NoIter
    /\ lpc = "line72"

PickIdle ==
    /\ working_spectrum = <<>>
    /\ detected_frequencies_out = <<>>
    /\ max_notes = 0
    /\ spectrum_in = <<>>
    /\ list_on_entry = <<>>
    /\ picked = <<>>
    /\ ppc = "idle"

----------------------------------------------------------------------------
(* SpecRing: the calls run one at a time *)

\* the ring buffer's calls touch neither the MIDI interface nor main()
RingFrame == UNCHANGED <<midiVars, mainVars, loopVars, pickVars>>

Write(chunk) ==
    /\ Len(stream) + Len(chunk) <= MaxWritten
    /\ LET rb == write(RB, chunk)
       IN  /\ buffer' = rb.buffer
           /\ write_index' = rb.write_index
           /\ is_full' = rb.is_full
    /\ stream' = stream \o chunk
    /\ lastCall' = [op |-> "write", n |-> Len(chunk), raised |-> FALSE]
    /\ UNCHANGED <<snap, threadVars>>
    /\ RingFrame

ReadRecent(n_samples) ==
    /\ n_samples <= Capacity
    /\ snap' = [arr |-> read_recent(RB, n_samples), n |-> n_samples,
                at |-> write_index, lo |-> Len(stream), hi |-> Len(stream)]
    /\ lastCall' = [op |-> "read_recent", n |-> n_samples, raised |-> FALSE]
    /\ UNCHANGED <<ringVars, stream, threadVars>>
    /\ RingFrame

\* a read_recent without the check of lines 45-46
ReadRecentTooMany_returns(n_samples) ==
    /\ n_samples > Capacity
    /\ snap' = [arr |-> read_recent(RB, n_samples), n |-> n_samples,
                at |-> write_index, lo |-> Len(stream), hi |-> Len(stream)]
    /\ lastCall' = [op |-> "read_recent", n |-> n_samples, raised |-> FALSE]
    /\ UNCHANGED <<ringVars, stream, threadVars>>
    /\ RingFrame

\* read_recent, lines 45-46: raise ValueError
ReadRecentTooMany(n_samples) ==
    /\ n_samples > Capacity
    /\ lastCall' = [op |-> "read_recent", n |-> n_samples, raised |-> TRUE]
    /\ UNCHANGED <<ringVars, stream, snap, threadVars>>
    /\ RingFrame

InitRing == RingInit /\ ThreadsIdle /\ MidiIdle /\ MainIdle /\ LoopIdle /\ PickIdle

NextRing ==
    \/ \E chunk \in Chunks : Write(chunk)
    \/ \E n \in 0..Capacity : ReadRecent(n)
    \/ ReadRecentTooMany(Capacity + 1)

SpecRing == InitRing /\ [][NextRing]_vars

----------------------------------------------------------------------------
(* SpecConc: write runs on the audio-callback thread, read_recent on the    *)
(* analysis thread, with no lock (input_stream.py line 110, run.py line     *)
(* 65). The threads interleave between statements; one numpy slice          *)
(* assignment or copy is one step. snap is the array of the call that       *)
(* returned last and is dropped when the next call begins; lastCall is not  *)
(* kept.                                                                    *)

\* write, lines 15-24: clip the chunk, compute end_index, choose the branch
WBegin(chunk) ==
    /\ wpc = "idle"
    /\ Len(stream) + Len(chunk) <= MaxConcWritten
    /\ LET data == ClipData(chunk)
           end_index == write_index + Len(data)
       IN  /\ wlocal' = [NoWrite EXCEPT !.data = data, !.data_len = Len(data),
                                        !.end_index = end_index,
                                        !.chunk_len = Len(chunk)]
           /\ wpc' = IF end_index <= Capacity THEN "line26" ELSE "line30"
    /\ stream' = stream \o chunk
    /\ UNCHANGED <<ringVars, snap, lastCall, rpc, rlocal>>
    /\ RingFrame

\* line 26: self.buffer[self.write_index:end_index] = data
WStoreSimple ==
    /\ wpc = "line26"
    /\ buffer' = StoreSlice(buffer, write_index, wlocal.data)
    /\ wpc' = "line27"
    /\ UNCHANGED <<write_index, is_full, histVars, wlocal, rpc, rlocal>>
    /\ RingFrame

\* line 27: self.write_index = end_index
WSetIndexSimple ==
    /\ wpc = "line27"
    /\ write_index' = wlocal.end_index
    /\ wpc' = "line37"
    /\ UNCHANGED <<buffer, is_full, histVars, wlocal, rpc, rlocal>>
    /\ RingFrame

\* lines 30-31: self.buffer[self.write_index:] = data[:first_part_len]
WStoreFirst ==
    /\ wpc = "line30"
    /\ LET first_part_len == Capacity - write_index
       IN  /\ buffer' = StoreSlice(buffer, write_index,
                                   PySlice(wlocal.data, 0, first_part_len))
           /\ wlocal' = [wlocal EXCEPT !.first_part_len = first_part_len]
    /\ wpc' = "line32"
    /\ UNCHANGED <<write_index, is_full, histVars, rpc, rlocal>>
    /\ RingFrame

\* lines 32-33: self.buffer[:second_part_len] = data[first_part_len:]
WStoreSecond ==
    /\ wpc = "line32"
    /\ LET second_part_len == wlocal.data_len - wlocal.first_part_len
       IN  /\ buffer' = StoreSlice(buffer, 0,
                                   PySlice(wlocal.data, wlocal.first_part_len,
                                           wlocal.data_len))
           /\ wlocal' = [wlocal EXCEPT !.second_part_len = second_part_len]
    /\ wpc' = "line34"
    /\ UNCHANGED <<write_index, is_full, histVars, rpc, rlocal>>
    /\ RingFrame

\* line 34: self.write_index = second_part_len
WSetIndexWrap ==
    /\ wpc = "line34"
    /\ write_index' = wlocal.second_part_len
    /\ wpc' = "line35"
    /\ UNCHANGED <<buffer, is_full, histVars, wlocal, rpc, rlocal>>
    /\ RingFrame

\* line 35: self.is_full = True
WSetFull ==
    /\ wpc = "line35"
    /\ is_full' = TRUE
    /\ wpc' = "line37"
    /\ UNCHANGED <<buffer, write_index, histVars, wlocal, rpc, rlocal>>
    /\ RingFrame

\* lines 37-38: if self.write_index == self.capacity: self.write_index = 0
WResetIndex ==
    /\ wpc = "line37"
    /\ write_index = Capacity
    /\ write_index' = 0
    /\ wpc' = "line39"
    /\ UNCHANGED <<buffer, is_full, histVars, wlocal, rpc, rlocal>>
    /\ RingFrame

\* line 39: self.is_full = True, and return
WSetFullReturn ==
    /\ wpc = "line39"
    /\ is_full' = TRUE
    /\ wpc' = "idle"
    /\ wlocal' = NoWrite
    /\ UNCHANGED <<buffer, write_index, histVars, rpc, rlocal>>
    /\ RingFrame

\* line 37 with write_index # capacity: return
WReturn ==
    /\ wpc = "line37"
    /\ write_index # Capacity
    /\ wpc' = "idle"
    /\ wlocal' = NoWrite
    /\ UNCHANGED <<ringVars, histVars, rpc, rlocal>>
    /\ RingFrame

\* read_recent, lines 45-48: n_samples <= capacity; compare self.write_index
RBegin(n_samples) ==
    /\ rpc = "idle"
    /\ n_samples <= Capacity
    /\ rlocal' = [NoRead EXCEPT !.n_samples = n_samples, !.at = write_index,
                                !.lo = Len(stream) - wlocal.chunk_len]
    /\ rpc' = IF write_index >= n_samples THEN "line49" ELSE "line52"
    /\ snap' = NoSnap
    /\ UNCHANGED <<ringVars, stream, lastCall, wpc, wlocal>>
    /\ RingFrame

\* line 49, the slice's lower bound: self.write_index - n_samples
RSliceStart ==
    /\ rpc = "line49"
    /\ rlocal' = [rlocal EXCEPT !.start = write_index - rlocal.n_samples]
    /\ rpc' = "line49stop"
    /\ UNCHANGED <<ringVars, histVars, wpc, wlocal>>
    /\ RingFrame

\* line 49, the slice's upper bound self.write_index, and the slice
RSliceStop ==
    /\ rpc = "line49stop"
    /\ rlocal' = [rlocal EXCEPT !.view = View(rlocal.start, write_index)]
    /\ rpc' = "line49copy"
    /\ UNCHANGED <<ringVars, histVars, wpc, wlocal>>
    /\ RingFrame

\* line 49: .copy(), and return
RCopyReturn ==
    /\ rpc = "line49copy"
    /\ snap' = [arr |-> CopyOf(rlocal.view, buffer), n |-> rlocal.n_samples,
                at |-> rlocal.at, lo |-> rlocal.lo, hi |-> Len(stream)]
    /\ rpc' = "idle"
    /\ rlocal' = NoRead
    /\ UNCHANGED <<ringVars, stream, lastCall, wpc, wlocal>>
    /\ RingFrame

\* lines 52-53: part1_len = n_samples - self.write_index; part1 = self.buffer[-part1_len:]
RPart1 ==
    /\ rpc = "line52"
    /\ LET part1_len == rlocal.n_samples - write_index
       IN  rlocal' = [rlocal EXCEPT !.part1_len = part1_len,
                                    !.part1 = View(-part1_len, Capacity)]
    /\ rpc' = "line54"
    /\ UNCHANGED <<ringVars, histVars, wpc, wlocal>>
    /\ RingFrame

\* line 54: part2 = self.buffer[:self.write_index]
RPart2 ==
    /\ rpc = "line54"
    /\ rlocal' = [rlocal EXCEPT !.part2 = View(0, write_index)]
    /\ rpc' = "line55"
    /\ UNCHANGED <<ringVars, histVars, wpc, wlocal>>
    /\ RingFrame

\* line 55: return np.concatenate((part1, part2))
RConcatReturn ==
    /\ rpc = "line55"
    /\ snap' = [arr |-> Concatenate(rlocal.part1, rlocal.part2, buffer),
                n |-> rlocal.n_samples, at |-> rlocal.at, lo |-> rlocal.lo,
                hi |-> Len(stream)]
    /\ rpc' = "idle"
    /\ rlocal' = NoRead
    /\ UNCHANGED <<ringVars, stream, lastCall, wpc, wlocal>>
    /\ RingFrame

WriterStep ==
    \/ \E chunk \in Chunks : WBegin(chunk)
    \/ WStoreSimple
    \/ WSetIndexSimple
    \/ WStoreFirst
    \/ WStoreSecond
    \/ WSetIndexWrap
    \/ WSetFull
    \/ WResetIndex
    \/ WSetFullReturn
    \/ WReturn

ReaderStep ==
    \/ \E n \in 0..Capacity : RBegin(n)
    \/ RSliceStart
    \/ RSliceStop
    \/ RCopyReturn
    \/ RPart1
    \/ RPart2
    \/ RConcatReturn

InitConc == RingInit /\ ThreadsIdle /\ MidiIdle /\ MainIdle /\ LoopIdle /\ PickIdle

NextConc ==
    \/ \E chunk \in Chunks : WBegin(chunk)
    \/ WStoreSimple
    \/ WSetIndexSimple
    \/ WStoreFirst
    \/ WStoreSecond
    \/ WSetIndexWrap
    \/ WSetFull
    \/ WResetIndex
    \/ WSetFullReturn
    \/ WReturn
    \/ \E n \in 0..Capacity : RBegin(n)
    \/ RSliceStart
    \/ RSliceStop
    \/ RCopyReturn
    \/ RPart1
    \/ RPart2
    \/ RConcatReturn

SpecConc == InitConc /\ [][NextConc]_vars

----------------------------------------------------------------------------
(* src/dsp/numba_math.py. Magnitudes and RMS levels are integers in units   *)
(* of 1/1000, a product is cut to that resolution; frequencies are in units *)
(* of 1/16 Hz, in which the bin width 48000/2048 Hz is the integer 375.     *)

SAMPLE_RATE == 48000
PADDED_SIZE == 2048

\* iterative_spectral_subtraction's defaults and constants
min_threshold == 100
DefaultMaxNotes == 6
num_harmonics == 10

\* line 144: freq_res = sample_rate / padded_size
freq_res == Hz(SAMPLE_RATE) \div PADDED_SIZE

\* line 155: start_bin = int(40 / freq_res) + 1
start_bin == Hz(40) \div freq_res + 1

\* int(round(a / b)) for a, b > 0
RoundDiv(a, b) == (2 * a + b) \div (2 * b)

\* spectral_whitening: divide by the maximum if it exceeds 1e-9 (below the
\* model's resolution: any maximum above 0)
spectral_whitening(spectrum) ==
    LET max_val == IF spectrum = <<>> THEN 0
                   ELSE Max(0, CHOOSE m \in Range(spectrum) :
                                   \A v \in Range(spectrum) : v <= m)
    IN  IF max_val > 0
        THEN [i \in 1..Len(spectrum) |-> (spectrum[i] * 1000) \div max_val]
        ELSE spectrum

\* a peak search that keeps the last of several equal maxima (>= for >)
FindPeak_last_max(ws) ==
    LET cand == {i \in start_bin..(Len(ws) - 1) : ws[i + 1] > -1}
    IN  IF cand = {} THEN [max_mag |-> -1, max_index |-> -1]
        ELSE LET m == CHOOSE v \in {ws[i + 1] : i \in cand} :
                          \A i \in cand : ws[i + 1] <= v
                 last == CHOOSE i \in cand :
                             /\ ws[i + 1] = m
                             /\ \A j \in cand : ws[j + 1] = m => j <= i
             IN  [max_mag |-> m, max_index |-> last]

\* a peak search that starts at bin 0
FindPeak_from_dc(ws) ==
    LET cand == {i \in 0..(Len(ws) - 1) : ws[i + 1] > -1}
    IN  IF cand = {} THEN [max_mag |-> -1, max_index |-> -1]
        ELSE LET m == CHOOSE v \in {ws[i + 1] : i \in cand} :
                          \A i \in cand : ws[i + 1] <= v
                 first == CHOOSE i \in cand :
                              /\ ws[i + 1] = m
                              /\ \A j \in cand : ws[j + 1] = m => i <= j
             IN  [max_mag |-> m, max_index |-> first]

\* lines 150-160: the first bin, from start_bin on, that holds the largest
\* magnitude above -1.0
FindPeak(ws) ==
    LET cand == {i \in start_bin..(Len(ws) - 1) : ws[i + 1] > -1}
    IN  IF cand = {} THEN [max_mag |-> -1, max_index |-> -1]
        ELSE LET m == CHOOSE v \in {ws[i + 1] : i \in cand} :
                          \A i \in cand : ws[i + 1] <= v
                 first == CHOOSE i \in cand :
                              /\ ws[i + 1] = m
                              /\ \A j \in cand : ws[j + 1] = m => i <= j
             IN  [max_mag |-> m, max_index |-> first]

\* lines 188-194: *= 0.1 at the bin, *= 0.3 at its neighbours
SuppressAt(ws, harmonic_bin) ==
    LET s1 == [ws EXCEPT ![harmonic_bin + 1] = @ \div 10]
        s2 == IF harmonic_bin > 0
              THEN [s1 EXCEPT ![harmonic_bin] = (3 * @) \div 10] ELSE s1
    IN  IF harmonic_bin < Len(ws) - 1
        THEN [s2 EXCEPT ![harmonic_bin + 2] = (3 * @) \div 10] ELSE s2

RECURSIVE SubtractHarmonics(_, _, _)
\* lines 179-194, from harmonic h on
SubtractHarmonics(ws, fundamental_freq, h) ==
    IF h > num_harmonics THEN ws
    ELSE LET harmonic_freq == fundamental_freq * h
             harmonic_bin == RoundDiv(harmonic_freq, freq_res)
         IN  SubtractHarmonics(IF harmonic_bin < Len(ws)
                               THEN SuppressAt(ws, harmonic_bin) ELSE ws,
                               fundamental_freq, h + 1)

\* line 163: if max_mag < min_threshold or max_index == -1: break
PeakTooLow(peak) == peak.max_mag < min_threshold \/ peak.max_index = -1

RECURSIVE PickRounds(_, _, _)
\* lines 148-196 with rounds rounds of the loop left
PickRounds(ws, detected_frequencies, rounds) ==
    IF rounds = 0 \/ PeakTooLow(FindPeak(ws)) THEN detected_frequencies
    ELSE LET fundamental_freq == FindPeak(ws).max_index * freq_res
         IN  PickRounds(SubtractHarmonics(ws, fundamental_freq, 1),
                        Append(detected_frequencies, fundamental_freq),
                        rounds - 1)

\* iterative_spectral_subtraction: the list it returns
iterative_spectral_subtraction(spectrum, rounds) ==
    PickRounds(spectrum, <<>>, rounds)

\* a detect_transient without its branch for a quiet previous frame
detect_transient_ratio_only(current, previous) ==
    current > 2 * previous

threshold_ratio == 2
min_rms == 10

\* detect_transient(current_rms, previous_rms) with the default
\* threshold_ratio and min_rms; current / previous > ratio is
\* current > ratio * previous, previous being positive there
detect_transient(current, previous) ==
    IF previous < min_rms
    THEN current > min_rms * 2
    ELSE current > threshold_ratio * previous

----------------------------------------------------------------------------
(* SpecPick: iterative_spectral_subtraction, one round of its loop a step  *)

\* the spectra of the model have SpecLen bins
SpecLen == 6
\* max_notes is at most MaxNotes
MaxNotes == 3

\* 0, below the threshold, the threshold, the maximum after whitening
Mags == {0, 50, 100, 1000}

Spectra == [1..SpecLen -> Mags]

\* test_spectral_ops_chord: 1025 bins, E2 (82.4 Hz, 5 * 82 + 2 fifths of a
\* Hz) at bin 4 with its 2nd and 3rd harmonic, A2 at bin 5 with its 2nd
\* harmonic
e2_bin == RoundDiv(5 * Hz(82) + 32, 5 * freq_res)
a2_bin == RoundDiv(Hz(110), freq_res)
spectrum_len == PADDED_SIZE \div 2 + 1
ChordSpectrum ==
    [i \in 1..spectrum_len |->
        CASE i - 1 = e2_bin -> 1000
          [] i - 1 = e2_bin * 2 -> 500
          [] i - 1 = e2_bin * 3 -> 300
          [] i - 1 = a2_bin -> 800
          [] i - 1 = a2_bin * 2 -> 400
          [] OTHER -> 0]

PickFrame ==
    UNCHANGED <<ringVars, histVars, threadVars, midiVars, mainVars, loopVars>>

\* a call that appends to whatever the list holds
PickBegin_no_clear ==
    /\ ppc = "entry"
    /\ ppc' = "loop"
    /\ UNCHANGED <<working_spectrum, detected_frequencies_out, max_notes,
                   spectrum_in, list_on_entry, picked>>
    /\ PickFrame

\* lines 132-144: empty the output list
PickBegin ==
    /\ ppc = "entry"
    /\ detected_frequencies_out' = <<>>
    /\ ppc' = "loop"
    /\ UNCHANGED <<working_spectrum, max_notes, spectrum_in, list_on_entry,
                   picked>>
    /\ PickFrame

\* lines 148-194: a round that registers a note
PickNote ==
    /\ ppc = "loop"
    /\ Len(picked) < max_notes
    /\ \E peak \in {FindPeak(working_spectrum)} :
          /\ ~PeakTooLow(peak)
          /\ \E fundamental_freq \in {peak.max_index * freq_res} :
                /\ detected_frequencies_out' =
                       Append(detected_frequencies_out, fundamental_freq)
                /\ working_spectrum' =
                       SubtractHarmonics(working_spectrum, fundamental_freq, 1)
          /\ picked' = Append(picked, [bin |-> peak.max_index,
                                       mag |-> peak.max_mag])
    /\ UNCHANGED <<max_notes, spectrum_in, list_on_entry, ppc>>
    /\ PickFrame

\* lines 163-164, then 196: break and return
PickBreak ==
    /\ ppc = "loop"
    /\ Len(picked) < max_notes
    /\ PeakTooLow(FindPeak(working_spectrum))
    /\ ppc' = "done"
    /\ UNCHANGED <<working_spectrum, detected_frequencies_out, max_notes,
                   spectrum_in, list_on_entry, picked>>
    /\ PickFrame

\* line 148 after max_notes rounds, then 196: return
PickReturn ==
    /\ ppc = "loop"
    /\ Len(picked) = max_notes
    /\ ppc' = "done"
    /\ UNCHANGED <<working_spectrum, detected_frequencies_out, max_notes,
                   spectrum_in, list_on_entry, picked>>
    /\ PickFrame

\* the call begins: any spectrum of the model with any max_notes, or the
\* chord with the default; the output list may hold an earlier call's result
InitPick ==
    /\ \/ spectrum_in \in Spectra /\ max_notes \in 0..MaxNotes
       \/ spectrum_in = ChordSpectrum /\ max_notes = DefaultMaxNotes
    /\ working_spectrum = spectrum_in
    /\ detected_frequencies_out \in {<<>>, <<Hz(440)>>}
    /\ list_on_entry = detected_frequencies_out
    /\ picked = <<>>
    /\ ppc = "entry"
    /\ RingInit /\ ThreadsIdle /\ MidiIdle /\ MainIdle /\ LoopIdle

NextPick ==
    \/ PickBegin
    \/ PickNote
    \/ PickBreak
    \/ PickReturn

SpecPick == InitPick /\ [][NextPick]_vars

----------------------------------------------------------------------------
(* SpecLevel: lines 72-75 of the loop body, statement by statement *)

\* RMS levels around min_rms, 2 * min_rms and the ratio 2
Levels == {0, 1, 5, 9, 10, 11, 19, 20, 21, 22, 40, 41}

LevelFrame ==
    UNCHANGED <<ringVars, histVars, threadVars, midiVars, mainVars, pickVars,
                iter>>

\* line 72: current_rms = calculate_rms(recent_chunk)
ComputeRms(rms) ==
    /\ lpc = "line72"
    /\ current_rms' = rms
    /\ lpc' = "line74"
    /\ UNCHANGED <<previous_rms, is_transient>>
    /\ LevelFrame

\* line 74: is_transient = detect_transient(current_rms, previous_rms)
DetectTransient ==
    /\ lpc = "line74"
    /\ is_transient' = detect_transient(current_rms, previous_rms)
    /\ lpc' = "line75"
    /\ UNCHANGED <<previous_rms, current_rms>>
    /\ LevelFrame

\* line 75: previous_rms = current_rms
RememberRms ==
    /\ lpc = "line75"
    /\ previous_rms' = current_rms
    /\ lpc' = "line72"
    /\ UNCHANGED <<current_rms, is_transient>>
    /\ LevelFrame

InitLevel ==
    /\ LoopIdle
    /\ RingInit /\ ThreadsIdle /\ MidiIdle /\ MainIdle /\ PickIdle

NextLevel ==
    \/ \E rms \in Levels : ComputeRms(rms)
    \/ DetectTransient
    \/ RememberRms

SpecLevel == InitLevel /\ [][NextLevel]_vars

----------------------------------------------------------------------------
(* MidiInterface *)

\* velocity update_notes passes to note_on (line 82)
Velocity == 80

\* the debounce length test_midi.py expects of update_notes (its line 21)
FRAMES_TO_KILL == 3

\* the per-note missing counter test_midi.py reads (its lines 27 and 32):
\* __init__ creates none and no method adds one
missing_counter == << >>

\* floor(Hz(440) * 2^((n - 69.5) / 12)) for n = 133..144: below each
\* bound lies the frequency band that rounds to the note n - 1 or lower. The
\* bounds themselves are irrational, so a frequency f of the model rounds to
\* n or higher iff f > the floor. An octave lower the floors halve.
TopOctaveFloor ==
    <<275754, 292152, 309524, 327929, 347429, 368088,
      389976, 413165, 437733, 463762, 491339, 520555>>

RECURSIVE Pow2(_)
Pow2(j) == IF j = 0 THEN 1 ELSE 2 * Pow2(j - 1)

SemitoneFloor(k, j) == TopOctaveFloor[k + 1] \div Pow2(j)

RECURSIVE NoteInOctave(_, _)
\* the note of a frequency 0 < f < 2^j-th part of the top octave's end
NoteInOctave(f, j) ==
    IF f > SemitoneFloor(0, j)
    THEN 133 - 12 * j
         + CHOOSE k \in 0..11 :
               /\ f > SemitoneFloor(k, j)
               /\ \A k2 \in (k + 1)..11 : f <= SemitoneFloor(k2, j)
    ELSE NoteInOctave(f, j + 1)

\* _freq_to_midi: int(round(69 + 12 * log2(freq / 440))), for freq below 34 kHz
FreqToMidi(freq) ==
    IF freq <= 0 THEN 0 ELSE NoteInOctave(freq, 0)

\* the frequencies update_notes is given in the model: 0 Hz, 4 Hz (note -12),
\* 82 Hz (40), 110 Hz (45), 440 Hz and 445 Hz (both 69), 13 kHz (128)
Frequencies ==
    {0, Hz(4), Hz(82), Hz(110), Hz(440), Hz(445), Hz(13000)}

NoteOnMsg(note, velocity) == [type |-> "note_on", note |-> note, velocity |-> velocity]
NoteOffMsg(note) == [type |-> "note_off", note |-> note, velocity |-> 0]

\* the interface: tr = [output_port, active_notes, sent], sent the messages
\* of the call in progress
\* a port whose send never raises
AllSendsOk == -1

\* sends_ok: how many more calls of output_port.send return before one
\* raises (AllSendsOk: every call returns); failed: <<msg>> once send(msg)
\* has raised and the exception is on its way out of update_notes
Tracker ==
    [output_port |-> output_port, active_notes |-> active_notes, sent |-> sent,
     sends_ok |-> AllSendsOk, failed |-> <<>>]

\* lines 47 and 56: self.output_port.send(msg)
Send(tr, msg) ==
    IF tr.sends_ok = 0
    THEN [tr EXCEPT !.failed = <<msg>>]
    ELSE [tr EXCEPT !.sent = Append(@, msg),
                    !.sends_ok = IF @ = AllSendsOk THEN @ ELSE @ - 1]

\* a guard that does not look at the port
CanSend_any_port(tr, note) == 0 <= note /\ note <= 127

\* a guard that does not look at the note number
CanSend_any_note(tr, note) == tr.output_port = "open"

\* note_on and note_off, lines 45 and 54: if self.output_port and 0 <= note <= 127
CanSend(tr, note) == tr.output_port = "open" /\ 0 <= note /\ note <= 127

\* a note_on that sends but does not record the note in active_notes
note_on_not_recorded(tr, note, velocity) ==
    IF CanSend(tr, note)
    THEN Send(tr, NoteOnMsg(note, velocity))
    ELSE tr

\* note_on(note, velocity)
note_on(tr, note, velocity) ==
    IF CanSend(tr, note)
    THEN LET after == Send(tr, NoteOnMsg(note, velocity))
         IN  IF after.failed # <<>> THEN after
             ELSE [after EXCEPT !.active_notes =
                                    IF note \in Range(@) THEN @ ELSE Append(@, note)]
    ELSE tr

\* a note_off that removes the note from active_notes before it sends
note_off_removed_first(tr, note) ==
    IF CanSend(tr, note)
    THEN Send([tr EXCEPT !.active_notes = SelectSeq(@, LAMBDA n : n # note)],
              NoteOffMsg(note))
    ELSE tr

\* note_off(note)
note_off(tr, note) ==
    IF CanSend(tr, note)
    THEN LET after == Send(tr, NoteOffMsg(note))
         IN  IF after.failed # <<>> THEN after
             ELSE [after EXCEPT !.active_notes = SelectSeq(@, LAMBDA n : n # note)]
    ELSE tr

\* the frequencies the peak picker can return for a spectrum of the model
BinFrequencies == {bin * freq_res : bin \in start_bin..(SpecLen - 1)}

\* _freq_to_midi on the frequencies of the model, computed once
NoteOf == [freq \in Frequencies \cup BinFrequencies |-> FreqToMidi(freq)]

\* update_notes, lines 66-70: the notes of the positive frequencies
CurrentNotes(detected_frequencies) ==
    {NoteOf[freq] : freq \in {f \in detected_frequencies : f > 0}}

\* an update_notes that turns every active note off
NotesToOff_all(tr, current_notes) == tr.active_notes

\* update_notes, line 73: the active notes not detected, in the dict's order
NotesToOff(tr, current_notes) ==
    SelectSeq(tr.active_notes, LAMBDA n : n \notin current_notes)

RECURSIVE TurnOff(_, _)
\* update_notes, lines 74-75; an exception of send ends the loop
TurnOff(tr, notes) ==
    IF notes = <<>> \/ tr.failed # <<>> THEN tr
    ELSE TurnOff(note_off(tr, Head(notes)), Tail(notes))

\* an update_notes that turns on every detected note, active or not
ShouldTurnOnAlways(tr, note) == TRUE

\* update_notes, line 81: if note not in self.active_notes
ShouldTurnOn(tr, note) == note \notin Range(tr.active_notes)

RECURSIVE TurnOn(_, _)
\* update_notes, lines 80-82: current_notes iterated in the order `order`;
\* an exception of send ends the loop
TurnOn(tr, order) ==
    IF order = <<>> \/ tr.failed # <<>> THEN tr
    ELSE TurnOn(IF ShouldTurnOn(tr, Head(order))
                THEN note_on(tr, Head(order), Velocity)
                ELSE tr,
                Tail(order))

\* the orders in which a set of notes can be iterated
RECURSIVE Orders(_)
Orders(S) ==
    IF S = {} THEN {<<>>}
    ELSE UNION {{<<n>> \o o : o \in Orders(S \ {n})} : n \in S}

\* the same for every set of notes of the model, computed once
OrdersOf ==
    [S \in (SUBSET {NoteOf[f] : f \in Frequencies})
            \cup (SUBSET {NoteOf[f] : f \in BinFrequencies}) |-> Orders(S)]

\* an update_notes that turns the new notes on before it turns the
\* undetected ones off
update_notes_on_first(tr, detected_frequencies, order) ==
    LET current_notes == CurrentNotes(detected_frequencies)
    IN  TurnOff(TurnOn(tr, order), NotesToOff(tr, current_notes))

\* update_notes(detected_frequencies)
update_notes(tr, detected_frequencies, order) ==
    LET current_notes == CurrentNotes(detected_frequencies)
    IN  TurnOn(TurnOff(tr, NotesToOff(tr, current_notes)), order)

\* the notes in MIDI range a frequency of the model converts to
Notes ==
    {n \in CurrentNotes(Frequencies \cup BinFrequencies) : 0 <= n /\ n <= 127}

\* for how many ticks in a row a note has not been detected; FRAMES_TO_KILL + 1
\* stands for longer than FRAMES_TO_KILL and for never
AbsentAfter(current_notes) ==
    [n \in Notes |->
        IF n \in current_notes THEN 0 ELSE Min(absentRun[n] + 1, FRAMES_TO_KILL + 1)]

\* the notes left with a note_on not followed by a note_off once msgs are sent
RECURSIVE OutstandingAfter(_, _)
OutstandingAfter(out, msgs) ==
    IF msgs = <<>> THEN out
    ELSE OutstandingAfter(IF Head(msgs).type = "note_on"
                          THEN out \cup {Head(msgs).note}
                          ELSE out \ {Head(msgs).note},
                          Tail(msgs))

\* the notes whose last message sent was a note_on
Outstanding == OutstandingAfter(sounding, sent)

\* one call of update_notes on a port whose send returns sends_ok times
UpdateNotesSending(detected_frequencies, sends_ok) ==
    /\ \E current_notes \in {CurrentNotes(detected_frequencies)} :
          /\ \E order \in OrdersOf[current_notes] :
                \E tr \in {update_notes([Tracker EXCEPT !.sent = <<>>,
                                                         !.sends_ok = sends_ok],
                                        detected_frequencies, order)} :
                    /\ active_notes' = tr.active_notes
                    /\ sent' = tr.sent
                    /\ send_failed' = tr.failed
          /\ sounding' = Outstanding
          /\ wasActive' = Range(active_notes)
          /\ absentRun' = AbsentAfter(current_notes)
    /\ nfreq' = Cardinality({f \in detected_frequencies :
                                f > 0 /\ NoteOf[f] \in Notes})
    /\ noutside' = Cardinality({f \in detected_frequencies :
                                   f > 0 /\ NoteOf[f] \notin Notes})
    /\ UNCHANGED output_port

\* one call of update_notes on a port whose send returns
UpdateNotes(detected_frequencies) ==
    /\ UpdateNotesSending(detected_frequencies, AllSendsOk)
    /\ UNCHANGED <<last_detected, same_calls>>

----------------------------------------------------------------------------
(* SpecMidi: update_notes called tick after tick on an open port *)

MidiFrame == UNCHANGED <<ringVars, histVars, threadVars, pickVars>>

\* MidiInterface.__init__, then open_port succeeds
MidiInit ==
    /\ active_notes = <<>>
    /\ sent = <<>>
    /\ sounding = {}
    /\ wasActive = {}
    /\ nfreq = 0
    /\ noutside = 0
    /\ absentRun = [n \in Notes |-> FRAMES_TO_KILL + 1]
    /\ send_failed = <<>>
    /\ last_detected = {}
    /\ same_calls = 0

RingIdle == RingInit

Tick(detected_frequencies) ==
    /\ UpdateNotes(detected_frequencies)
    /\ UNCHANGED <<mainVars, loopVars>>
    /\ MidiFrame

InitMidi ==
    /\ MidiInit /\ output_port = "open"
    /\ RingIdle /\ ThreadsIdle /\ MainIdle /\ LoopIdle /\ PickIdle

NextMidi == \E d \in SUBSET Frequencies : Tick(d)

SpecMidi == InitMidi /\ [][NextMidi]_vars

----------------------------------------------------------------------------
(* SpecRepeat: update_notes called tick after tick on an open port, with the
   list of each call remembered so that a repeated list can be told *)

RepeatFrequencies == {0, Hz(4), Hz(82), Hz(110), Hz(440), Hz(445)}

TickList(detected_frequencies) ==
    /\ UpdateNotesSending(detected_frequencies, AllSendsOk)
    /\ last_detected' = {detected_frequencies}
    /\ same_calls' = IF last_detected = {detected_frequencies} THEN 2 ELSE 1
    /\ UNCHANGED <<mainVars, loopVars>>
    /\ MidiFrame

InitRepeat == InitMidi

NextRepeat == \E d \in SUBSET RepeatFrequencies : TickList(d)

SpecRepeat == InitRepeat /\ [][NextRepeat]_vars

----------------------------------------------------------------------------
(* SpecDriver: run.py main() from audio_stream.start() to "Exited." *)

\* the spectrum with the given magnitudes at the given bins, 0 elsewhere
Spectrum(peaks) ==
    [i \in 1..SpecLen |->
        IF \E p \in peaks : p[1] = i - 1
        THEN (CHOOSE p \in peaks : p[1] = i - 1)[2] ELSE 0]

\* what an iteration finds in the ring buffer: the RMS of the last 128
\* samples and the FFT magnitudes of the window. Digital silence, a tone at
\* bin 3 of RMS 0.001, and two loud chords
Signals ==
    {[rms |-> 0,   magnitude |-> Spectrum({})],
     [rms |-> 1,   magnitude |-> Spectrum({<<0, 2>>, <<3, 20>>})],
     [rms |-> 300, magnitude |-> Spectrum({<<2, 50000>>})],
     [rms |-> 300, magnitude |-> Spectrum({<<3, 40000>>, <<5, 30000>>})]}

\* lines 80-82 on the signals of the model, computed once
DetectedOf ==
    [sig \in Signals |->
        iterative_spectral_subtraction(spectral_whitening(sig.magnitude),
                                       DefaultMaxNotes)]

\* the silence gate's threshold, 0.002, of the driver's description
SILENCE_RMS == 2

\* the exit status of the process: main() returns after "Exited." (lines
\* 113-116) and the interpreter ends with status 0; -1 while it runs
exit_code == IF pc = "exited" THEN 0 ELSE -1

\* line 55: audio_stream.start() returns
StartStream ==
    /\ pc = "start"
    /\ audio' = "running"
    /\ pc' = "loop"
    /\ UNCHANGED <<midiVars, loopVars>>
    /\ MidiFrame

\* line 55 raises: caught at line 107, on to the finally block
StartFails ==
    /\ pc = "start"
    /\ audio' = "failed"
    /\ pc' = "finally"
    /\ UNCHANGED <<midiVars, loopVars>>
    /\ MidiFrame

\* lines 58-103: one iteration that reaches midi.update_notes(detected_freqs)
Iterate(sig) ==
    /\ pc = "loop"
    /\ current_rms' = sig.rms
    /\ is_transient' = detect_transient(sig.rms, previous_rms)
    /\ previous_rms' = sig.rms
    /\ UpdateNotes(Range(DetectedOf[sig]))
    /\ iter' = [outcome |-> "updated", rms |-> sig.rms,
                detected |-> DetectedOf[sig]]
    /\ UNCHANGED <<mainVars, lpc>>
    /\ MidiFrame

\* lines 58-103: an iteration in which a step raises, caught at line 98:
\* read_recent (early), or a step after line 75
IterateRaises(sig, early) ==
    /\ pc = "loop"
    /\ IF early
       THEN UNCHANGED <<previous_rms, current_rms, is_transient>>
       ELSE /\ current_rms' = sig.rms
            /\ is_transient' = detect_transient(sig.rms, previous_rms)
            /\ previous_rms' = sig.rms
    /\ iter' = [outcome |-> "raised", rms |-> sig.rms, detected |-> <<>>]
    /\ UNCHANGED <<mainVars, midiVars, lpc>>
    /\ MidiFrame

\* lines 58-103: an iteration in which output_port.send raises inside
\* midi.update_notes (line 96) after sends_ok sends, caught at line 98
IterateSendRaises(sig, sends_ok) ==
    /\ pc = "loop"
    /\ current_rms' = sig.rms
    /\ is_transient' = detect_transient(sig.rms, previous_rms)
    /\ previous_rms' = sig.rms
    /\ UpdateNotesSending(Range(DetectedOf[sig]), sends_ok)
    /\ send_failed' # <<>>
    /\ iter' = [outcome |-> "send_raised", rms |-> sig.rms,
                detected |-> DetectedOf[sig]]
    /\ UNCHANGED <<mainVars, lpc, last_detected, same_calls>>
    /\ MidiFrame

\* line 105: KeyboardInterrupt
Interrupt ==
    /\ pc = "loop"
    /\ pc' = "finally"
    /\ iter' = [iter EXCEPT !.outcome = "interrupted"]
    /\ UNCHANGED <<audio, midiVars, previous_rms, current_rms, is_transient,
                   lpc>>
    /\ MidiFrame

\* line 110: audio_stream.stop()
StopAudio ==
    /\ pc = "finally"
    /\ audio' = IF audio = "running" THEN "stopped" ELSE audio
    /\ pc' = "close"
    /\ UNCHANGED <<midiVars, loopVars>>
    /\ MidiFrame

\* lines 111-113: if midi.output_port: midi.close_port()
ClosePort ==
    /\ pc = "close"
    /\ output_port' = IF output_port = "open" THEN "closed" ELSE output_port
    /\ pc' = "exited"
    /\ UNCHANGED <<audio, active_notes, sent, sounding, wasActive, nfreq,
                   noutside, absentRun, send_failed, last_detected,
                   same_calls, loopVars>>
    /\ MidiFrame

\* lines 34-35: open_port opened a port, or found none
InitDriver ==
    /\ MidiInit
    /\ output_port \in {"open", "none"}
    /\ pc = "start"
    /\ audio = "new"
    /\ RingIdle /\ ThreadsIdle /\ LoopIdle /\ PickIdle

NextDriver ==
    \/ StartStream
    \/ StartFails
    \/ \E sig \in Signals : Iterate(sig)
    \/ \E sig \in Signals, early \in BOOLEAN : IterateRaises(sig, early)
    \/ \E sig \in Signals :
          \E sends_ok \in 0..(Len(active_notes) + Len(DetectedOf[sig])) :
              IterateSendRaises(sig, sends_ok)
    \/ Interrupt
    \/ StopAudio
    \/ ClosePort

SpecDriver == InitDriver /\ [][NextDriver]_vars

----------------------------------------------------------------------------
(* What read_recent is to return *)

\* the last k elements of s
LastK(s, k) == SubSeq(s, Len(s) - k + 1, Len(s))

\* the last k samples of the zero-initialised buffer followed by the first m written
RecentOf(m, k) == LastK(Zeros \o SubSeq(stream, 1, m), k)

\* C1: in every state reached by any sequence of writes on a fresh buffer,
\* read_recent(k), 0 <= k <= Capacity, returns the last k elements, oldest
\* first, of Capacity zeros followed by all written samples; so does the
\* array a read_recent call has just returned.
C1_ReadRecentIsSuffix ==
    /\ \A k \in 0..Capacity :
           Contents(read_recent(RB, k), buffer) = RecentOf(Len(stream), k)
    /\ (lastCall.op = "read_recent" /\ ~lastCall.raised) =>
           /\ snap.n = lastCall.n
           /\ Contents(snap.arr, buffer) = RecentOf(Len(stream), snap.n)

\* C1 witness: after more samples than the buffer holds were written, a
\* wrap-around read of the whole buffer returned the last Capacity written
\* samples, not all equal
C1_Witness ==
    /\ Len(stream) > Capacity + 1
    /\ lastCall.op = "read_recent" /\ lastCall.n = Capacity
    /\ 0 < write_index
    /\ snap.arr.data = LastK(stream, Capacity)
    /\ \E i \in 1..Capacity : snap.arr.data[i] # snap.arr.data[1]

\* C10: a read_recent call leaves the buffer contents and the write cursor
\* unchanged and returns an array that owns its data; a step that returns no
\* new array (a write) leaves the samples of the array returned before
\* unchanged.
C10_SnapshotIsolated ==
    [][ /\ lastCall'.op = "read_recent" =>
              /\ buffer' = buffer /\ write_index' = write_index
              /\ ~lastCall'.raised => snap'.arr.kind = "copy"
        /\ (snap' = snap /\ snap.arr.kind # "none") =>
              Contents(snap'.arr, buffer') = Contents(snap.arr, buffer)
      ]_vars

\* C10 witness: a contiguous read returned a snapshot and a later write has
\* overwritten every slot it was taken from with different samples
C10_Witness ==
    /\ lastCall.op = "write"
    /\ snap.arr.kind = "copy"
    /\ snap.at >= snap.n /\ snap.n > 0
    /\ \A i \in 1..snap.n :
           buffer[snap.at - snap.n + i] # snap.arr.data[i]

\* C10 witness, wrap-around path: the same for a snapshot assembled from the
\* end and the start of the buffer
C10_WitnessWrap ==
    /\ lastCall.op = "write"
    /\ snap.arr.kind = "copy"
    /\ snap.n = Capacity /\ 0 < snap.at /\ snap.at < snap.n
    /\ \A i \in 1..Capacity :
           buffer[((snap.at + i - 1) % Capacity) + 1] # snap.arr.data[i]

\* C8: a read_recent(k) call with k <= Capacity that has returned, whatever
\* steps of a concurrent write ran between its own, returned exactly k samples.
C8_ReturnsKSamples ==
    snap.arr.kind # "none" => Len(Contents(snap.arr, buffer)) = snap.n

\* C9: the k samples a read_recent call returned while a write ran
\* concurrently are the last k samples of the zero-initialised buffer followed
\* by some prefix of the written stream, a prefix that was the written stream
\* at some moment between the call's start and its return; and a call that
\* has started can always take its next step, whatever the other thread does.
C9_SnapshotIsRecentSuffix ==
    /\ snap.arr.kind # "none" =>
          \E m \in snap.lo..snap.hi :
              Contents(snap.arr, buffer) = RecentOf(m, snap.n)
    /\ wpc # "idle" => ENABLED WriterStep
    /\ rpc # "idle" => ENABLED ReaderStep

----------------------------------------------------------------------------
(* The note tracker's claims *)

Active == Range(active_notes)

\* how many messages of a type the last update_notes sent for a note
CountMsgs(type, n) ==
    Cardinality({i \in 1..Len(sent) : sent[i].type = type /\ sent[i].note = n})

\* the types of the messages the last update_notes sent for a note, in order
TypesFor(n) ==
    LET forN == SelectSeq(sent, LAMBDA m : m.note = n)
    IN  [i \in 1..Len(forN) |-> forN[i].type]

\* types alternates note_on, note_off, ..., beginning with note_off if the
\* note had a note_on outstanding and with note_on if not
AlternatesFrom(on, types) ==
    \A i \in 1..Len(types) :
        types[i] = IF (i % 2 = 1) = on THEN "note_off" ELSE "note_on"

\* C2: with the port open, a note detected and then absent for j ticks in a
\* row is still active and gets no NoteOff while j < FRAMES_TO_KILL; on the
\* FRAMES_TO_KILL-th absent tick exactly one NoteOff is sent and the note
\* leaves the active set; a NoteOff is sent on no other tick.
C2_NoteOffOnKillFrame ==
    output_port = "open" =>
        \A n \in Notes :
            /\ absentRun[n] \in 1..(FRAMES_TO_KILL - 1) =>
                  n \in Active /\ CountMsgs("note_off", n) = 0
            /\ absentRun[n] = FRAMES_TO_KILL =>
                  n \notin Active /\ CountMsgs("note_off", n) = 1
            /\ CountMsgs("note_off", n) > 0 => absentRun[n] = FRAMES_TO_KILL

\* C3: with the port open, the messages of every update_notes call alternate
\* for each note between NoteOn and NoteOff, beginning with NoteOff only if a
\* NoteOn was outstanding when the call began; so over any sequence of calls
\* the messages of a note alternate NoteOn, NoteOff, NoteOn, ... And the
\* active set is the set of notes with a NoteOn outstanding.
C3_MessagesAlternate ==
    output_port = "open" =>
        /\ \A i \in 1..Len(sent) :
              AlternatesFrom(sent[i].note \in sounding, TypesFor(sent[i].note))
        /\ Active = Outstanding
        /\ wasActive = sounding

\* C3 witness: 440 Hz and 445 Hz, both note 69, were detected in one tick
\* while 69 was not active, and one NoteOn for 69 was sent
C3_Witness ==
    /\ output_port = "open"
    /\ nfreq = 2
    /\ \A n \in Notes : absentRun[n] = 0 <=> n = 69
    /\ 69 \notin wasActive
    /\ CountMsgs("note_on", 69) = 1
    /\ 69 \in Active

\* C4: the tracker's missing counter has an entry only for active notes; a
\* note detected and then absent for j ticks in a row, 1 <= j <
\* FRAMES_TO_KILL, is active with a counter of j; from the FRAMES_TO_KILL-th
\* absent tick on it is in neither.
C4_MissingCounter ==
    output_port = "open" =>
        /\ DOMAIN missing_counter \subseteq Active
        /\ \A n \in Notes :
              /\ absentRun[n] \in 1..(FRAMES_TO_KILL - 1) =>
                    /\ n \in Active
                    /\ n \in DOMAIN missing_counter
                    /\ missing_counter[n] = absentRun[n]
              /\ absentRun[n] >= FRAMES_TO_KILL =>
                    n \notin Active /\ n \notin DOMAIN missing_counter

\* C5: with the port open, when a note absent for j ticks in a row, 1 <= j <
\* FRAMES_TO_KILL, is detected again, it was active all along and that tick
\* sends no message for it; and the first absent tick after a detection
\* sends no NoteOff (the count restarted from zero).
C5_RedetectedKeepsSounding ==
    [][ output_port = "open" =>
          \A n \in Notes :
              /\ (absentRun[n] \in 1..(FRAMES_TO_KILL - 1) /\ absentRun'[n] = 0) =>
                    /\ n \in Active /\ n \in Active'
                    /\ \A i \in 1..Len(sent') : sent'[i].note # n
              /\ (absentRun[n] = 0 /\ absentRun'[n] = 1 /\ FRAMES_TO_KILL > 1) =>
                    /\ n \in Active'
                    /\ \A i \in 1..Len(sent') :
                          ~(sent'[i].note = n /\ sent'[i].type = "note_off")
      ]_vars

\* C6: with the port open, after every update_notes call each note in 0..127
\* that the call detected is active, and if it was not active when the call
\* began the call sent exactly one NoteOn for it.
C6_NoteOnImmediate ==
    output_port = "open" =>
        \A n \in Notes :
            absentRun[n] = 0 =>
                /\ n \in Active
                /\ n \notin wasActive => CountMsgs("note_on", n) = 1

\* C6 witness: one tick sent the NoteOff of a note no longer detected and the
\* NoteOn of a note detected for the first time
C6_Witness ==
    /\ output_port = "open"
    /\ \E n \in Notes :
          /\ absentRun[n] = 0 /\ n \notin wasActive
          /\ CountMsgs("note_on", n) = 1 /\ n \in Active
    /\ \E n \in Notes : CountMsgs("note_off", n) = 1

\* C7: once main() has closed the MIDI port, the audio stream is no longer
\* running and no note is left with a NoteOn outstanding or in the active set.
C7_FlushBeforeClose ==
    output_port = "closed" =>
        /\ audio # "running"
        /\ Outstanding = {}
        /\ Active = {}

----------------------------------------------------------------------------
(* The ring buffer's error and cursor claims *)

\* C11: a read_recent(k) with k > capacity raises: it returns no array and
\* leaves buffer, write_index and is_full as they were, so every
\* read_recent(k') with k' <= capacity returns after it what it would have
\* returned before it.
C11_TooManyRaises ==
    [][ (lastCall'.op = "read_recent" /\ lastCall'.n > Capacity) =>
          /\ lastCall'.raised
          /\ UNCHANGED <<buffer, write_index, is_full, stream, snap>>
          /\ \A k \in 0..Capacity : read_recent(RB', k) = read_recent(RB, k)
      ]_vars

\* C11 witness: a read_recent(capacity + 1) raised after the buffer had
\* wrapped and an earlier read_recent had returned samples
C11_Witness ==
    /\ lastCall.op = "read_recent" /\ lastCall.raised
    /\ lastCall.n > Capacity
    /\ Len(stream) > Capacity
    /\ snap.n > 0

\* the number of samples the write that has just returned was given
Written == Len(stream') - Len(stream)

\* C12 as stated: after every write the cursor is (previous cursor +
\* len(samples)) mod capacity, for every chunk length.
C12_CursorAdvancesByLen ==
    [][ lastCall'.op = "write" /\ Written = lastCall'.n =>
          /\ write_index' = (write_index + Written) % Capacity
          /\ write_index' \in 0..(Capacity - 1)
      ]_vars

\* C12 amended: after every write the cursor is (previous cursor +
\* min(len(samples), capacity)) mod capacity, hence in 0..capacity-1.
C12_CursorAdvancesByClippedLen ==
    [][ lastCall'.op = "write" /\ Written = lastCall'.n =>
          /\ write_index' = (write_index + Min(Written, Capacity)) % Capacity
          /\ write_index' \in 0..(Capacity - 1)
      ]_vars

\* C12 witness: a chunk longer than the buffer has been written at a cursor
\* other than 0
C12_Witness ==
    /\ lastCall.op = "write" /\ lastCall.n > Capacity
    /\ write_index # 0
    /\ Len(stream) > lastCall.n

----------------------------------------------------------------------------
(* The peak picker's claims *)

\* C17: once the output list is emptied, iterative_spectral_subtraction's
\* list never holds more than max_notes frequencies; each is bin * freq_res
\* for a bin of the spectrum from start_bin on, whose magnitude in the
\* working spectrum was at least min_threshold when it was chosen; and an
\* all-zero spectrum returns the empty list.
C17_PickerOutput ==
    ppc \in {"loop", "done"} =>
        /\ Len(detected_frequencies_out) <= max_notes
        /\ Len(picked) = Len(detected_frequencies_out)
        /\ \A i \in 1..Len(picked) :
              /\ picked[i].bin >= start_bin
              /\ picked[i].bin < Len(spectrum_in)
              /\ detected_frequencies_out[i] = picked[i].bin * freq_res
              /\ picked[i].mag >= min_threshold
        /\ (ppc = "done" /\ \A i \in 1..Len(spectrum_in) : spectrum_in[i] = 0)
              => detected_frequencies_out = <<>>

\* C17 witness: bins 0 and 1 held the spectrum's maximum, the call returned
\* max_notes > 1 frequencies and left a peak above the threshold unpicked
C17_Witness ==
    /\ ppc = "done"
    /\ max_notes > 1
    /\ Len(detected_frequencies_out) = max_notes
    /\ spectrum_in[1] = 1000 /\ spectrum_in[2] = 1000
    /\ ~PeakTooLow(FindPeak(working_spectrum))

\* a frequency f (1/16 Hz) lies within one bin width of a target given in
\* units of 1/80 Hz
Near(f, target80) ==
    LET d == 5 * f - target80
    IN  (IF d < 0 THEN -d ELSE d) < 5 * freq_res

SomeNear(target80) ==
    \E i \in 1..Len(detected_frequencies_out) :
        Near(detected_frequencies_out[i], target80)

\* C18: for the chord of test_spectral_ops_chord the returned list has a
\* frequency within one bin width of E2 (82.4 Hz) and one of A2 (110 Hz),
\* and none within one bin width of their 2nd harmonics, 164.8 Hz and 220 Hz.
C18_ChordFundamentalsOnly ==
    (ppc = "done" /\ spectrum_in = ChordSpectrum) =>
        /\ SomeNear(5 * Hz(82) + 32)
        /\ SomeNear(5 * Hz(110))
        /\ ~SomeNear(2 * (5 * Hz(82) + 32))
        /\ ~SomeNear(5 * Hz(220))

----------------------------------------------------------------------------
(* The transient flag's claim *)

\* C19: the flag detect_transient returns is: current > 2 * min_rms if
\* previous < min_rms, and current / previous > threshold_ratio otherwise.
\* So an unchanged level is no transient, and neither is a level that stays
\* at or below 2 * min_rms after a previous level below min_rms.
C19_TransientFlag ==
    lpc = "line75" =>
        /\ previous_rms < min_rms => (is_transient <=> current_rms > 2 * min_rms)
        /\ previous_rms >= min_rms =>
              (is_transient <=> current_rms > threshold_ratio * previous_rms)
        /\ current_rms = previous_rms => ~is_transient
        /\ (previous_rms < min_rms /\ current_rms <= 2 * min_rms) => ~is_transient

\* C19 witness: from a level below min_rms the level more than doubled and
\* stayed below 2 * min_rms, and no transient was flagged
C19_Witness ==
    /\ lpc = "line75"
    /\ 0 < previous_rms /\ previous_rms < min_rms
    /\ current_rms > threshold_ratio * previous_rms
    /\ current_rms < 2 * min_rms
    /\ ~is_transient

----------------------------------------------------------------------------
(* The driver's claims *)

\* C13: an iteration whose RMS is below SILENCE_RMS passes the empty list to
\* update_notes, and no NoteOn is sent in it.
C13_SilenceGate ==
    (iter.outcome = "updated" /\ iter.rms < SILENCE_RMS) =>
        /\ iter.detected = <<>>
        /\ \A i \in 1..Len(sent) : sent[i].type # "note_on"

\* C14: an iteration in which a step raises leaves main() in its loop and
\* the ring buffer as it was, and the tracker is updated with the empty set:
\* every note has then been absent for one more tick.
C14_FailedFrameCountsAsMissing ==
    [][ iter'.outcome = "raised" =>
          /\ pc' = "loop"
          /\ UNCHANGED <<buffer, write_index, is_full>>
          /\ absentRun' = AbsentAfter({})
      ]_vars

\* C15 as stated: with no MIDI port open, an update_notes call sends
\* nothing and leaves in the active set exactly the detected notes in
\* 0..127, as it does with a working port.
C15_StateKeptWithoutPort ==
    (output_port = "none" /\ iter.outcome = "updated") =>
        /\ sent = <<>>
        /\ Active = {n \in Notes : absentRun[n] = 0}

\* C15 amended: with no MIDI port open, update_notes sends nothing and the
\* active set stays empty.
C15_NothingWithoutPort ==
    output_port = "none" => (sent = <<>> /\ Active = {})

\* C15 witness: with no port open an iteration passed update_notes a
\* frequency that converts to a note in 0..127
C15_Witness ==
    /\ output_port = "none"
    /\ iter.outcome = "updated"
    /\ nfreq > 0
    /\ \E n \in Notes : absentRun[n] = 0

\* C16: every message update_notes sends is well formed: a NoteOn has a note
\* in 0..127 and a velocity in 1..127, a NoteOff a note in 0..127 and
\* velocity 0.
C16_MessagesWellFormed ==
    \A i \in 1..Len(sent) :
        /\ sent[i].note \in 0..127
        /\ sent[i].type = "note_on" => sent[i].velocity \in 1..127
        /\ sent[i].type = "note_off" => sent[i].velocity = 0
        /\ sent[i].type \in {"note_on", "note_off"}

\* C16 witness: a tick was given frequencies converting to notes below 0 and
\* above 127 (4 Hz and 13 kHz) and sent a NoteOn and a NoteOff
C16_Witness ==
    /\ output_port = "open"
    /\ noutside = 2
    /\ \E i \in 1..Len(sent) : sent[i].type = "note_on"
    /\ \E i \in 1..Len(sent) : sent[i].type = "note_off"

\* C20: when audio_stream.start() failed, the process ends with a nonzero
\* exit status and the MIDI port released; an iteration that raised leaves
\* main() in its loop.
C20_StartFailureExitsNonzero ==
    /\ (audio = "failed" /\ pc = "exited") =>
          exit_code # 0 /\ output_port # "open"
    /\ iter.outcome = "raised" => pc = "loop"

----------------------------------------------------------------------------
(* The peak picker's further claims *)

\* C21: within one call, a bin registered as a fundamental is not registered
\* again, and neither is any of its harmonic bins, bin * h for h in
\* 2..num_harmonics, for spectra with values in 0..1.
C21_NoReselection ==
    \A i, j \in 1..Len(picked) :
        i < j => \A h \in 1..num_harmonics : picked[j].bin # picked[i].bin * h

\* C23: the bin a round registers holds the largest magnitude of the working
\* spectrum from start_bin on, and no lower bin from start_bin on holds the
\* same magnitude.
C23_LowestIndexWins ==
    [][ Len(picked') > Len(picked) =>
          LET chosen == picked'[Len(picked')].bin
          IN  /\ picked'[Len(picked')].mag = working_spectrum[chosen + 1]
              /\ \A b \in start_bin..(Len(working_spectrum) - 1) :
                    /\ working_spectrum[b + 1] <= working_spectrum[chosen + 1]
                    /\ working_spectrum[b + 1] = working_spectrum[chosen + 1]
                          => chosen <= b
      ]_vars

\* C23 witness: a note was registered while a higher bin of the spectrum
\* held the same magnitude, the largest from start_bin on
C23_Witness ==
    /\ Len(picked) >= 1
    /\ picked[1].mag >= min_threshold
    /\ \E b \in (picked[1].bin + 1)..(Len(spectrum_in) - 1) :
          spectrum_in[b + 1] = picked[1].mag

\* C24: the list the call returns is what the call detects in its spectrum,
\* whatever the list held on entry; a spectrum with no magnitude of at least
\* min_threshold from start_bin on returns the empty list.
C24_ListHoldsThisCallOnly ==
    ppc = "done" =>
        /\ detected_frequencies_out =
               iterative_spectral_subtraction(spectrum_in, max_notes)
        /\ (\A b \in start_bin..(Len(spectrum_in) - 1) :
                spectrum_in[b + 1] < min_threshold)
              => detected_frequencies_out = <<>>

\* C24 witness: the list held a frequency on entry and the call returned
\* the empty list, with max_notes > 0
C24_Witness ==
    /\ ppc = "done"
    /\ list_on_entry # <<>>
    /\ max_notes > 0
    /\ detected_frequencies_out = <<>>

----------------------------------------------------------------------------
(* The tracker's further claims *)

\* C22 as stated: within one update_notes call every note_on is sent before
\* any note_off.
C22_NoteOnsBeforeNoteOffs ==
    \A i, j \in 1..Len(sent) :
        i < j => ~(sent[i].type = "note_off" /\ sent[j].type = "note_on")

\* C22: within one update_notes call every note_off is sent before any
\* note_on: departures first, arrivals second.
C22_NoteOffsBeforeNoteOns ==
    \A i, j \in 1..Len(sent) :
        i < j => ~(sent[i].type = "note_on" /\ sent[j].type = "note_off")

\* C22 witness: one call sent note_offs and note_ons, three messages or more
C22_Witness ==
    /\ Len(sent) >= 3
    /\ \E i \in 1..Len(sent) : sent[i].type = "note_off"
    /\ \E i \in 1..Len(sent) : sent[i].type = "note_on"

\* C25: the active notes are the notes whose last message sent without an
\* exception was a note_on, and a note whose send raised is active exactly
\* if it was before the call.
C25_FailedSendKeepsState ==
    /\ Active = Outstanding
    /\ send_failed # <<>> =>
          (send_failed[1].note \in Active <=> send_failed[1].note \in wasActive)

\* C25 witness: a send raised after an earlier send of the same call had
\* returned, and a note is active
C25_Witness ==
    /\ send_failed # <<>>
    /\ sent # <<>>
    /\ Active # {}

\* C26: when update_notes is called twice in a row with the same list on an
\* open port, the second call sends no note_on and leaves every detected
\* note of 0..127 active.
C26_RepeatedListIsSteady ==
    same_calls = 2 =>
        /\ \A i \in 1..Len(sent) : sent[i].type # "note_on"
        /\ \A d \in last_detected :
              \A f \in d : (f > 0 /\ NoteOf[f] \in Notes) => NoteOf[f] \in Active

\* C26 witness: the list given twice holds two notes of 0..127 and a
\* frequency that converts to a note outside the range
C26_Witness ==
    /\ same_calls = 2
    /\ nfreq >= 2
    /\ noutside >= 1
    /\ Cardinality(Active) = 2

====
